---- MODULE Spec2Model ----
(***************************************************************************)
(* The music-sync server of server/index.js as a state machine: the        *)
(* session registry (users), the per-user Konami debounce map, the         *)
(* activation counter and the clock functions over serverStartTime.        *)
(*                                                                         *)
(* Time is Date.now() in milliseconds.  The server's "seconds" values      *)
(* (getElapsedTime, getCurrentSongTime, SONG_DURATION) are kept in         *)
(* thousandths of a second: (Date.now() - serverStartTime) / 1000 has at   *)
(* most three decimals, so the fixed-point value is exact.                 *)
(* Pointer coordinates (normalized 0-1 in the source) are kept in tenths.  *)
(*                                                                         *)
(* Spec is the whole server.  SpecGate and SpecSync are its two halves,    *)
(* which share the session lifecycle and no other state: the properties    *)
(* are checked under the half that holds the state they speak about.       *)
(***************************************************************************)
EXTENDS Integers, Sequences, FiniteSets, TLC

\* ---- bounds of the model ----
MaxSockets == 2          \* socket ids the transport hands out in one run
MaxLoops == 1            \* completed loops the clock may reach
MaxActivations == 2      \* accepted activations in one run
MaxSamples == 12         \* latency samples one client records when only latency is followed
MaxBeats == 5            \* latency samples one client records when playback is followed
MaxSessions == 2         \* sockets the followed client opens in one run
MaxViewers == 1          \* other viewers connected at one time next to the followed client
MaxInbox == 2            \* events on the wire to the followed client at one time
MaxStarts == 2           \* startWithSync calls that wait at an await at the same time

\* ---- program constants ----
SONG_DURATION == 21      \* seconds
MsPerSecond == 1000      \* the / 1000 of getElapsedTime
DebounceWindow == 1000   \* the 1000 of `now - lastActivation < 1000`
DefaultCoord == 5        \* x: 0.5, y: 0.5 in tenths

DurationMs == SONG_DURATION * MsPerSecond

\* ---- inputs ----
SocketIds == 1..MaxSockets
Colors == {"hsl(0, 80%, 60%)", "hsl(120, 80%, 60%)"}
CursorPayloads == {[x |-> 0, y |-> 10], [x |-> 12, y |-> 5]}
PingTimes == {0, 7}
\* the empty object: no field at all, as an event emitted without an argument has
NoData == [f \in {} |-> 0]
\* cursorMove payloads that lack the payload object, x, or y
MalformedPayloads == {NoData, [y |-> 5], [x |-> 0]}
\* Date.now() at process start: an unset system clock (0) and a later one.
StartTimes == {0, 5000}
\* Clock readings, as offsets from the start of the process.
Offsets ==
    {0, 100, 500, 999, 1000, 1500}
        \cup {k * DurationMs + d : k \in 1..MaxLoops, d \in {-1, 0, 4000}}

VARIABLES
    now,                  \* the value Date.now() returns
    serverStartTime,      \* const serverStartTime = Date.now()
    konamiActivations,    \* let konamiActivations
    lastKonamiActivation, \* Map userId -> timestamp
    users,                \* Map userId -> {id, color, x, y}
    sockets,              \* connected sockets: id -> the closure's userColor
    issued,               \* socket ids the transport has handed out
    sent,                 \* messages emitted by the last handler, in order
    event,                \* the last handler that ran
    acceptedCount,        \* history: how many activations were accepted
    lastAccepted,         \* history: userId -> time of its last accepted activation
    lastLoop,             \* history: loopCount of the last timed message before `sent`
    firstSync             \* history: connected userId -> identity fields of its initial sync

\* One browser client: the useMultiplayer hook and the App component that uses it.
VARIABLES
    clockSkew,            \* the client's Date.now() minus the server's
    socket,               \* socketRef.current: "none", "connecting" or "connected"
    syncData,             \* useState syncData: << >> for null, else <<data>>
    listenerSync,         \* the syncData the socket's listeners closed over is not null
    latencyHistory,       \* latencyHistoryRef.current
    latency,              \* latencyRef.current
    duration,             \* the audio hook's duration in ms, 0 until the audio is loaded
    isPlaying,            \* the audio hook's isPlaying
    lastResync,           \* lastResyncRef.current
    starting,             \* startWithSync calls waiting at an await, each with its closure
    hasTriggeredAudio,    \* hasTriggeredAudioRef.current
    inbox,                \* server-to-client messages on the wire, oldest first
    clientSent,           \* messages the client emitted in its last step
    clientEvent,          \* the last client handler that ran
    recorded,             \* history: every sample handed to updateLatency, in order
    lastCorrection,       \* history: << >> or <<client time of the last synced playAt>>
    synced,               \* history: a sync was handled on the current connection
    secretModeActive,     \* useState secretModeActive of App
    lastActivation,       \* lastActivationRef.current of useKonamiCode
    sid,                  \* socket.id of the client's socket on the server, 0 if it has none
    usersRef,             \* usersRef.current: Map userId -> User
    userId,               \* userIdRef.current, 0 for null
    konamiCount,          \* useState konamiCount, 0 for null
    outbox                \* konamiActivated events emitted and not yet handled by the server

serverVars == <<now, serverStartTime, konamiActivations, lastKonamiActivation, users,
                sockets, issued, sent, event, acceptedCount, lastAccepted, lastLoop,
                firstSync>>

clientVars == <<clockSkew, socket, syncData, listenerSync, latencyHistory, latency,
                duration, isPlaying, lastResync, starting, hasTriggeredAudio, inbox,
                clientSent, clientEvent, recorded, lastCorrection, synced,
                secretModeActive, lastActivation, sid, usersRef, userId, konamiCount,
                outbox>>

vars == <<now, serverStartTime, konamiActivations, lastKonamiActivation, users,
          sockets, issued, sent, event, acceptedCount, lastAccepted, lastLoop,
          firstSync, clockSkew, socket, syncData, listenerSync, latencyHistory,
          latency, duration, isPlaying, lastResync, starting, hasTriggeredAudio,
          inbox, clientSent, clientEvent, recorded, lastCorrection, synced,
          secretModeActive, lastActivation, sid, usersRef, userId, konamiCount,
          outbox>>

TimePoints == {serverStartTime + o : o \in Offsets}

\* A later Date.now() read inside one handler: the same millisecond or the next
\* (the next where it is one of the modelled readings).
After(t) == {t} \cup ({t + 1} \cap TimePoints)

\* ---- the transport between the server and the client that is followed ----
\* what the handler that just ran emitted to the client's socket, in order
ForClient(msgs) == SelectSeq(msgs, LAMBDA m : sid \in m.to)

\* the handler that just ran was the konamiActivated listener of the client's socket
Served(e) == sid # 0 /\ e.kind = "konamiActivated" /\ e.id = sid

\* A step of the server seen from the client: what the server emitted to the
\* client's socket is on the wire behind what was there, the event the server
\* handled is off it, and nothing of the client's own state moves.
Wire ==
    /\ inbox' = inbox \o ForClient(sent')
    /\ outbox' = IF Served(event') /\ outbox # << >> THEN Tail(outbox) ELSE outbox
    /\ UNCHANGED <<clockSkew, socket, syncData, listenerSync, latencyHistory, latency,
                   duration, isPlaying, lastResync, starting, hasTriggeredAudio,
                   clientSent, clientEvent, recorded, lastCorrection, synced,
                   secretModeActive, lastActivation, sid, usersRef, userId,
                   konamiCount>>

\* ---- the clock functions ----
getElapsedTime(t) == t - serverStartTime

\* JavaScript's a % b for b > 0: the remainder takes the sign of a
JsRem(a, b) == IF a >= 0 THEN a % b ELSE -((-a) % b)

\* mutant: the position without the wrap at the end of the loop
getCurrentSongTimeNoWrap(t) == getElapsedTime(t)

getCurrentSongTime(t) == JsRem(getElapsedTime(t), DurationMs)

\* mutant: % written for /, the whole seconds of the position
getLoopCountOfPosition(t) == JsRem(getElapsedTime(t), DurationMs) \div MsPerSecond

\* mutant: Math.round written for Math.floor
getLoopCountRounded(t) == (2 * getElapsedTime(t) + DurationMs) \div (2 * DurationMs)

getLoopCount(t) == getElapsedTime(t) \div DurationMs

\* ---- helpers ----
Connected == DOMAIN sockets
\* mutant: io.emit written for socket.broadcast.emit
OthersAndSender(id) == Connected \cup {id}

\* socket.broadcast.emit: every connected socket but the sender
Others(id) == Connected \ {id}
MapSet(f, k, v) == [i \in DOMAIN f \cup {k} |-> IF i = k THEN v ELSE f[i]]
MapDelete(f, k) == [i \in DOMAIN f \ {k} |-> f[i]]
NoEvent == [kind |-> "none", id |-> 0]
TimedTypes == {"sync", "pong", "heartbeat"}
Timed(msgs) == {i \in DOMAIN msgs : msgs[i].type \in TimedTypes}
\* the loopCount of the most recent Sync, Pong or Heartbeat, -1 before the first
PrevLoop == IF Timed(sent) = {} THEN lastLoop ELSE sent[CHOOSE i \in Timed(sent) : TRUE].loopCount

\* the fields of a sync that say who the viewer is and which loop it follows
Identity(m) ==
    [serverStartTime |-> m.serverStartTime, songDuration |-> m.songDuration,
     userId |-> m.userId, userColor |-> m.userColor]

\* mutant: the snapshot is the registry as the handler found it, taken before
\* users.set
SyncPayloadBeforeJoin(id, color, r1, r2, r3, reg) ==
    [type |-> "sync", to |-> {id},
     serverStartTime |-> serverStartTime,
     serverNow |-> r1,
     songDuration |-> SONG_DURATION,
     songTime |-> getCurrentSongTime(r2),
     loopCount |-> getLoopCount(r3),
     userId |-> id,
     userColor |-> color,
     users |-> {users[i] : i \in DOMAIN users},
     userCount |-> Cardinality(DOMAIN users)]

SyncPayload(id, color, r1, r2, r3, reg) ==
    [type |-> "sync", to |-> {id},
     serverStartTime |-> serverStartTime,
     serverNow |-> r1,
     songDuration |-> SONG_DURATION,
     songTime |-> getCurrentSongTime(r2),
     loopCount |-> getLoopCount(r3),
     userId |-> id,
     userColor |-> color,
     users |-> {reg[i] : i \in DOMAIN reg},
     userCount |-> Cardinality(DOMAIN reg)]

Init ==
    /\ serverStartTime \in StartTimes
    /\ now = serverStartTime
    /\ konamiActivations = 0
    /\ lastKonamiActivation = << >>
    /\ users = << >>
    /\ sockets = << >>
    /\ issued = {}
    /\ sent = << >>
    /\ event = NoEvent
    /\ acceptedCount = 0
    /\ lastAccepted = << >>
    /\ lastLoop = -1
    /\ firstSync = << >>
    /\ clockSkew = 0
    /\ socket = "none"
    /\ syncData = << >>
    /\ listenerSync = FALSE
    /\ latencyHistory = << >>
    /\ latency = 0
    /\ duration = 0
    /\ isPlaying = FALSE
    /\ lastResync = 0
    /\ starting = << >>
    /\ hasTriggeredAudio = FALSE
    /\ inbox = << >>
    /\ clientSent = << >>
    /\ clientEvent = [kind |-> "none"]
    /\ recorded = << >>
    /\ lastCorrection = << >>
    /\ synced = FALSE
    /\ secretModeActive = FALSE
    /\ lastActivation = 0
    /\ sid = 0
    /\ usersRef = << >>
    /\ userId = 0
    /\ konamiCount = 0
    /\ outbox = << >>

\* The wall clock moves on between two handlers.
Tick ==
    /\ \E t \in TimePoints : t > now /\ now' = t
    /\ sent' = << >>
    /\ lastLoop' = PrevLoop
    /\ event' = [kind |-> "tick", id |-> 0]
    /\ UNCHANGED <<serverStartTime, konamiActivations, lastKonamiActivation,
                   users, sockets, issued, acceptedCount, lastAccepted, firstSync>>
    /\ Wire

\* the body of the connection handler for a socket whose socket.id is id and whose
\* generateColor() yields color
onConnection(id, color) ==
    /\ \E r1 \in After(now) : \E r2 \in After(r1) : \E r3 \in After(r2) :
        LET user == [id |-> id, color |-> color, x |-> DefaultCoord, y |-> DefaultCoord]
            reg == MapSet(users, id, user)
            sync == SyncPayload(id, color, r1, r2, r3, reg)
        IN  /\ users' = reg
            /\ sent' = << sync,
                          [type |-> "userJoined", to |-> Others(id),
                           user |-> user, userCount |-> Cardinality(DOMAIN reg)] >>
            /\ now' = r3
    /\ sockets' = MapSet(sockets, id, color)
    /\ issued' = issued \cup {id}
    /\ firstSync' = MapSet(firstSync, id, Identity(sent'[1]))
    /\ lastLoop' = PrevLoop
    /\ event' = [kind |-> "connection", id |-> id]
    /\ UNCHANGED <<serverStartTime, konamiActivations, lastKonamiActivation,
                   acceptedCount, lastAccepted>>
    /\ Wire

\* io.on('connection').  socket.id is fresh for every connection; which of the
\* unused ids the transport picks makes no difference, so it picks the least.
Connection(id, color) ==
    /\ id \in SocketIds \ issued
    /\ \A j \in SocketIds \ issued : id <= j
    /\ onConnection(id, color)

\* The same handler run for a socket whose id is the id of a session that is still
\* in the registry.
RejoinConnection(id, color) ==
    /\ id \in DOMAIN users
    /\ onConnection(id, color)

\* mutant: the handler forgets users.delete(userId)
DisconnectKeepsUser(id) ==
    /\ id \in Connected
    /\ sockets' = MapDelete(sockets, id)
    /\ firstSync' = MapDelete(firstSync, id)
    /\ users' = users
    /\ sent' = << [type |-> "userLeft", to |-> Others(id), userId |-> id,
                   userCount |-> Cardinality(DOMAIN users')] >>
    /\ lastLoop' = PrevLoop
    /\ event' = [kind |-> "disconnect", id |-> id]
    /\ UNCHANGED <<now, serverStartTime, konamiActivations, lastKonamiActivation,
                   issued, acceptedCount, lastAccepted>>
    /\ Wire

\* mutant: userCount is read before users.delete(userId)
DisconnectCountsFirst(id) ==
    /\ id \in Connected
    /\ sockets' = MapDelete(sockets, id)
    /\ firstSync' = MapDelete(firstSync, id)
    /\ users' = MapDelete(users, id)
    /\ sent' = << [type |-> "userLeft", to |-> Others(id), userId |-> id,
                   userCount |-> Cardinality(DOMAIN users)] >>
    /\ lastLoop' = PrevLoop
    /\ event' = [kind |-> "disconnect", id |-> id]
    /\ UNCHANGED <<now, serverStartTime, konamiActivations, lastKonamiActivation,
                   issued, acceptedCount, lastAccepted>>
    /\ Wire

\* socket.on('disconnect')
Disconnect(id) ==
    /\ id \in Connected
    /\ sockets' = MapDelete(sockets, id)
    /\ firstSync' = MapDelete(firstSync, id)
    /\ users' = MapDelete(users, id)
    /\ sent' = << [type |-> "userLeft", to |-> Others(id), userId |-> id,
                   userCount |-> Cardinality(DOMAIN users')] >>
    /\ lastLoop' = PrevLoop
    /\ event' = [kind |-> "disconnect", id |-> id]
    /\ UNCHANGED <<now, serverStartTime, konamiActivations, lastKonamiActivation,
                   issued, acceptedCount, lastAccepted>>
    /\ Wire

\* mutant: the update is broadcast but not stored
onCursorMoveNoUpdate(id, data) ==
    /\ IF id \in DOMAIN users
       THEN /\ users' = users
            /\ sent' = << [type |-> "cursorUpdate", to |-> Others(id),
                           userId |-> id, x |-> data.x, y |-> data.y] >>
       ELSE /\ users' = users
            /\ sent' = << >>
    /\ lastLoop' = PrevLoop
    /\ event' = [kind |-> "cursorMove", id |-> id, data |-> data]
    /\ UNCHANGED <<now, serverStartTime, konamiActivations, lastKonamiActivation,
                   sockets, issued, acceptedCount, lastAccepted, firstSync>>
    /\ Wire

\* mutant: no `if (user)` test, the entry is written whether it exists or not
onCursorMoveUpsert(id, data) ==
    /\ users' = MapSet(users, id,
                       IF id \in DOMAIN users
                       THEN [users[id] EXCEPT !.x = data.x, !.y = data.y]
                       ELSE [id |-> id, color |-> "", x |-> data.x, y |-> data.y])
    /\ sent' = << [type |-> "cursorUpdate", to |-> Others(id),
                   userId |-> id, x |-> data.x, y |-> data.y] >>
    /\ lastLoop' = PrevLoop
    /\ event' = [kind |-> "cursorMove", id |-> id, data |-> data]
    /\ UNCHANGED <<now, serverStartTime, konamiActivations, lastKonamiActivation,
                   sockets, issued, acceptedCount, lastAccepted, firstSync>>
    /\ Wire

\* JavaScript's undefined where a number is expected, as a number no payload carries
Undefined == -1
\* data.k: the value of the field, undefined if the object lacks it
Field(data, k) == IF k \in DOMAIN data THEN data[k] ELSE Undefined
\* data.x with data undefined throws a TypeError
Throws(data) == DOMAIN data = {}

\* mutant: the entry is replaced by a new object that holds the position only
onCursorMoveReplacesEntry(id, data) ==
    /\ IF id \in DOMAIN users /\ ~Throws(data)
       THEN /\ users' = [users EXCEPT ![id] = [id |-> id, color |-> "",
                                               x |-> Field(data, "x"),
                                               y |-> Field(data, "y")]]
            /\ sent' = << [type |-> "cursorUpdate", to |-> Others(id),
                           userId |-> id, x |-> Field(data, "x"),
                           y |-> Field(data, "y")] >>
       ELSE /\ users' = users
            /\ sent' = << >>
    /\ event' = [kind |-> "cursorMove", id |-> id, data |-> data]
    /\ lastLoop' = PrevLoop
    /\ UNCHANGED <<now, serverStartTime, konamiActivations, lastKonamiActivation,
                   sockets, issued, acceptedCount, lastAccepted, firstSync>>
    /\ Wire

\* the body of the cursorMove listener of socket id.  Nothing catches the TypeError
\* of `data.x`: it leaves the listener before anything is written and ends the
\* process.
onCursorMove(id, data) ==
    /\ IF id \in DOMAIN users
       THEN IF Throws(data)
            THEN /\ users' = users
                 /\ sent' = << >>
                 /\ event' = [kind |-> "uncaughtException", id |-> id, data |-> data]
            ELSE /\ users' = [users EXCEPT ![id].x = Field(data, "x"),
                                           ![id].y = Field(data, "y")]
                 /\ sent' = << [type |-> "cursorUpdate", to |-> Others(id),
                                userId |-> id, x |-> Field(data, "x"),
                                y |-> Field(data, "y")] >>
                 /\ event' = [kind |-> "cursorMove", id |-> id, data |-> data]
       ELSE /\ users' = users
            /\ sent' = << >>
            /\ event' = [kind |-> "cursorMove", id |-> id, data |-> data]
    /\ lastLoop' = PrevLoop
    /\ UNCHANGED <<now, serverStartTime, konamiActivations, lastKonamiActivation,
                   sockets, issued, acceptedCount, lastAccepted, firstSync>>
    /\ Wire

\* socket.on('cursorMove'): an event of a connected socket
CursorMove(id, data) ==
    /\ id \in Connected
    /\ onCursorMove(id, data)

\* socket.on('cursorMove') handed a payload that is not {x, y}
MalformedCursorMove(id, data) ==
    /\ id \in Connected
    /\ onCursorMove(id, data)

\* The same listener run for a socket whose disconnect has already been handled:
\* the race the `if (user)` test of the listener is written for.
LateCursorMove(id, data) ==
    /\ id \in issued \ Connected
    /\ onCursorMove(id, data)

\* mutant: the handler draws a new color instead of using the closure's userColor
RequestSyncNewColor(id) ==
    /\ id \in Connected
    /\ \E color \in Colors :
       \E r1 \in After(now) : \E r2 \in After(r1) : \E r3 \in After(r2) :
        LET sync == SyncPayload(id, color, r1, r2, r3, users)
        IN  /\ sent' = << sync >>
            /\ now' = r3
    /\ lastLoop' = PrevLoop
    /\ event' = [kind |-> "requestSync", id |-> id]
    /\ UNCHANGED <<serverStartTime, konamiActivations, lastKonamiActivation, users,
                   sockets, issued, acceptedCount, lastAccepted, firstSync>>
    /\ Wire

\* socket.on('requestSync')
RequestSync(id) ==
    /\ id \in Connected
    /\ \E r1 \in After(now) : \E r2 \in After(r1) : \E r3 \in After(r2) :
        LET sync == SyncPayload(id, sockets[id], r1, r2, r3, users)
        IN  /\ sent' = << sync >>
            /\ now' = r3
    /\ lastLoop' = PrevLoop
    /\ event' = [kind |-> "requestSync", id |-> id]
    /\ UNCHANGED <<serverStartTime, konamiActivations, lastKonamiActivation, users,
                   sockets, issued, acceptedCount, lastAccepted, firstSync>>
    /\ Wire

\* mutant: the pong carries the server's clock where the client's belongs
PingEchoesServerTime(id, clientTime) ==
    /\ id \in Connected
    /\ \E r1 \in After(now) : \E r2 \in After(r1) : \E r3 \in After(r2) :
        LET pong == [type |-> "pong", to |-> {id},
                     clientTime |-> r1,
                     serverTime |-> r1,
                     songTime |-> getCurrentSongTime(r2),
                     loopCount |-> getLoopCount(r3)]
        IN  /\ sent' = << pong >>
            /\ now' = r3
    /\ lastLoop' = PrevLoop
    /\ event' = [kind |-> "ping", id |-> id, data |-> clientTime]
    /\ UNCHANGED <<serverStartTime, konamiActivations, lastKonamiActivation, users,
                   sockets, issued, acceptedCount, lastAccepted, firstSync>>
    /\ Wire

\* socket.on('ping')
Ping(id, clientTime) ==
    /\ id \in Connected
    /\ \E r1 \in After(now) : \E r2 \in After(r1) : \E r3 \in After(r2) :
        LET pong == [type |-> "pong", to |-> {id},
                     clientTime |-> clientTime,
                     serverTime |-> r1,
                     songTime |-> getCurrentSongTime(r2),
                     loopCount |-> getLoopCount(r3)]
        IN  /\ sent' = << pong >>
            /\ now' = r3
    /\ lastLoop' = PrevLoop
    /\ event' = [kind |-> "ping", id |-> id, data |-> clientTime]
    /\ UNCHANGED <<serverStartTime, konamiActivations, lastKonamiActivation, users,
                   sockets, issued, acceptedCount, lastAccepted, firstSync>>
    /\ Wire

\* mutant: one timestamp shared by all users, the latest activation of anyone
LastActivationOfAnyone(id) ==
    IF DOMAIN lastKonamiActivation = {}
    THEN 0
    ELSE CHOOSE t \in {lastKonamiActivation[i] : i \in DOMAIN lastKonamiActivation} :
            \A i \in DOMAIN lastKonamiActivation : lastKonamiActivation[i] <= t

\* lastKonamiActivation.get(userId) || 0
LastActivation(id) ==
    IF id \in DOMAIN lastKonamiActivation /\ lastKonamiActivation[id] # 0
    THEN lastKonamiActivation[id]
    ELSE 0

\* mutant: <= written for <
DebouncedInclusive(t, last) == t - last <= DebounceWindow

\* the debounce test `now - lastActivation < 1000`
Debounced(t, last) == t - last < DebounceWindow

\* mutant: the increment is lost
NextCountStuck(n) == n

\* konamiActivations++
NextCount(n) == n + 1

\* mutant: a rejected attempt restarts the window
DebounceExtendsWindow(id) ==
    /\ sent' = << >>
    /\ lastKonamiActivation' = MapSet(lastKonamiActivation, id, now)
    /\ UNCHANGED <<konamiActivations, acceptedCount, lastAccepted>>

\* the `return` of the debounce branch: nothing is stored, nothing is emitted
Debounce(id) ==
    /\ sent' = << >>
    /\ UNCHANGED <<konamiActivations, lastKonamiActivation, acceptedCount, lastAccepted>>

\* mutant: io.emit written for socket.emit
ActivateBroadcast(id) ==
    /\ lastKonamiActivation' = MapSet(lastKonamiActivation, id, now)
    /\ konamiActivations' = NextCount(konamiActivations)
    /\ sent' = << [type |-> "konamiCount", to |-> Connected, count |-> konamiActivations'] >>
    /\ acceptedCount' = acceptedCount + 1
    /\ lastAccepted' = MapSet(lastAccepted, id, now)

\* the statements after the debounce test
Activate(id) ==
    /\ lastKonamiActivation' = MapSet(lastKonamiActivation, id, now)
    /\ konamiActivations' = NextCount(konamiActivations)
    /\ sent' = << [type |-> "konamiCount", to |-> {id}, count |-> konamiActivations'] >>
    /\ acceptedCount' = acceptedCount + 1
    /\ lastAccepted' = MapSet(lastAccepted, id, now)

\* the body of the konamiActivated listener of socket id; the counter is capped
\* by MaxActivations
onKonamiActivated(id) ==
    /\ konamiActivations < MaxActivations
    /\ IF Debounced(now, LastActivation(id)) THEN Debounce(id) ELSE Activate(id)
    /\ lastLoop' = PrevLoop
    /\ event' = [kind |-> "konamiActivated", id |-> id]
    /\ UNCHANGED <<now, serverStartTime, users, sockets, issued, firstSync>>
    /\ Wire

\* socket.on('konamiActivated'): an event of a connected socket
KonamiActivated(id) ==
    /\ id \in Connected
    /\ onKonamiActivated(id)

\* The same listener run for a socket whose disconnect has already been handled.
LateKonamiActivated(id) ==
    /\ id \in issued \ Connected
    /\ onKonamiActivated(id)

\* mutant: no `users.size > 0` test
HeartbeatAlways ==
    /\ \E r1 \in After(now) : \E r2 \in After(r1) : \E r3 \in After(r2) :
              LET beat == [type |-> "heartbeat", to |-> Connected,
                           serverNow |-> r1,
                           serverStartTime |-> serverStartTime,
                           songTime |-> getCurrentSongTime(r2),
                           loopCount |-> getLoopCount(r3)]
              IN  /\ sent' = << beat >>
                  /\ now' = r3
    /\ lastLoop' = PrevLoop
    /\ event' = [kind |-> "heartbeat", id |-> 0]
    /\ UNCHANGED <<serverStartTime, konamiActivations, lastKonamiActivation, users,
                   sockets, issued, acceptedCount, lastAccepted, firstSync>>
    /\ Wire

\* setInterval(..., 2000): the timer callback; when it runs is up to the event loop
Heartbeat ==
    /\ IF Cardinality(DOMAIN users) > 0
       THEN \E r1 \in After(now) : \E r2 \in After(r1) : \E r3 \in After(r2) :
              LET beat == [type |-> "heartbeat", to |-> Connected,
                           serverNow |-> r1,
                           serverStartTime |-> serverStartTime,
                           songTime |-> getCurrentSongTime(r2),
                           loopCount |-> getLoopCount(r3)]
              IN  /\ sent' = << beat >>
                  /\ now' = r3
       ELSE /\ sent' = << >>
            /\ UNCHANGED now
    /\ lastLoop' = PrevLoop
    /\ event' = [kind |-> "heartbeat", id |-> 0]
    /\ UNCHANGED <<serverStartTime, konamiActivations, lastKonamiActivation, users,
                   sockets, issued, acceptedCount, lastAccepted, firstSync>>
    /\ Wire

\* app.get('/')
Health ==
    /\ \E r1 \in After(now) : \E r2 \in After(r1) :
        /\ sent' = << [type |-> "health", to |-> {},
                       status |-> "ok",
                       songTime |-> getCurrentSongTime(r1),
                       loopCount |-> getLoopCount(r2),
                       userCount |-> Cardinality(DOMAIN users)] >>
        /\ now' = r2
    /\ lastLoop' = PrevLoop
    /\ event' = [kind |-> "health", id |-> 0]
    /\ UNCHANGED <<serverStartTime, konamiActivations, lastKonamiActivation, users,
                   sockets, issued, acceptedCount, lastAccepted, firstSync>>
    /\ Wire

Next ==
    \/ Tick
    \/ \E id \in SocketIds, color \in Colors : Connection(id, color)
    \/ \E id \in SocketIds : Disconnect(id)
    \/ \E id \in SocketIds, data \in CursorPayloads : CursorMove(id, data)
    \/ \E id \in SocketIds : RequestSync(id)
    \/ \E id \in SocketIds, clientTime \in PingTimes : Ping(id, clientTime)
    \/ \E id \in SocketIds : KonamiActivated(id)
    \/ Heartbeat
    \/ Health

Spec == Init /\ [][Next]_vars

\* The debounced event gate with the session lifecycle.  konamiActivations and
\* lastKonamiActivation are read and written by the konamiActivated handler alone;
\* the handlers left out touch neither.
NextGate ==
    \/ Tick
    \/ \E id \in SocketIds, color \in Colors : Connection(id, color)
    \/ \E id \in SocketIds : Disconnect(id)
    \/ \E id \in SocketIds : KonamiActivated(id)

SpecGate == Init /\ [][NextGate]_vars

\* The session registry, the clock and the sync protocol: every handler but
\* konamiActivated, which reads and writes none of their state.
NextSync ==
    \/ Tick
    \/ \E id \in SocketIds, color \in Colors : Connection(id, color)
    \/ \E id \in SocketIds : Disconnect(id)
    \/ \E id \in SocketIds, data \in CursorPayloads : CursorMove(id, data)
    \/ \E id \in SocketIds : RequestSync(id)
    \/ \E id \in SocketIds, clientTime \in PingTimes : Ping(id, clientTime)
    \/ Heartbeat
    \/ Health

SpecSync == Init /\ [][NextSync]_vars

\* A transport that may still hand a listener an event of a socket after that
\* socket's disconnect has been handled: pointer updates.
NextLateMove ==
    \/ Tick
    \/ \E id \in SocketIds, color \in Colors : Connection(id, color)
    \/ \E id \in SocketIds : Disconnect(id)
    \/ \E id \in SocketIds, data \in CursorPayloads : CursorMove(id, data)
    \/ \E id \in SocketIds, data \in CursorPayloads : LateCursorMove(id, data)

SpecLateMove == Init /\ [][NextLateMove]_vars

\* The same transport: activations.
NextLateGate ==
    \/ Tick
    \/ \E id \in SocketIds, color \in Colors : Connection(id, color)
    \/ \E id \in SocketIds : Disconnect(id)
    \/ \E id \in SocketIds : KonamiActivated(id)
    \/ \E id \in SocketIds : LateKonamiActivated(id)

SpecLateGate == Init /\ [][NextLateGate]_vars

\* A transport that may hand the connection handler an id that is in use.
NextRejoin ==
    \/ Tick
    \/ \E id \in SocketIds, color \in Colors : Connection(id, color)
    \/ \E id \in SocketIds : Disconnect(id)
    \/ \E id \in SocketIds, data \in CursorPayloads : CursorMove(id, data)
    \/ \E id \in SocketIds, color \in Colors : RejoinConnection(id, color)

SpecRejoin == Init /\ [][NextRejoin]_vars

\* the process runs until an exception leaves a listener
Running == event.kind # "uncaughtException"

\* Clients that send cursorMove payloads of any shape.
NextMalformed ==
    \/ Running /\ Tick
    \/ Running /\ \E id \in SocketIds, color \in Colors : Connection(id, color)
    \/ Running /\ \E id \in SocketIds : Disconnect(id)
    \/ Running /\ \E id \in SocketIds, data \in CursorPayloads : CursorMove(id, data)
    \/ Running /\ \E id \in SocketIds, data \in MalformedPayloads : MalformedCursorMove(id, data)

SpecMalformed == Init /\ [][NextMalformed]_vars

\* ---- the client: useMultiplayer and App ----

WindowSize == 10           \* `latencyHistoryRef.current.length > 10`
DRIFT_THRESHOLD == 150     \* 0.15 s
ResyncCooldown == 3000     \* `now - lastResyncRef.current < 3000`
HalvesPerMs == 2           \* latencies are kept in halves of a millisecond: `/ 2` is exact
DefaultDuration == 21      \* useRef<number>(21.0), seconds
ACTIVATION_DEBOUNCE == 500 \* ms

\* what the client's clock is ahead of the server's by (ms)
Skews == {0, 200, -1000}
\* the age in ms, by the server's clock, of a message when the client handles it
Delays == {100, 10000}
\* values of the audio hook's currentTime (ms)
Positions == {0, 150, 20900}
\* the duration the audio hook reports once the audio is loaded (ms)
AudioDurations == {DurationMs}
\* the age of a heartbeat where playback is followed
BeatDelays == {100}

Max(a, b) == IF a >= b THEN a ELSE b
Min(a, b) == IF a <= b THEN a ELSE b
Abs(a) == IF a >= 0 THEN a ELSE -a
\* Math.floor(a / b) for b > 0
Floor(a, b) == IF a >= 0 THEN a \div b ELSE -((-a + b - 1) \div b)

\* the client's Date.now() when the server's is t
ClientNow(t) == t + clockSkew
\* socketRef.current?.connected, and the isConnected state that follows it
IsConnected == socket = "connected"
\* actualDurationRef.current (ms)
actualDuration == IF duration > 0 THEN duration ELSE DefaultDuration * MsPerSecond

\* (a difference of ms milliseconds) / 2, in halves of a millisecond
OneWay(ms) == (ms * HalvesPerMs) \div 2

\* the number NaN, which arithmetic on a missing field (undefined) yields
NaN == -999999

\* Math.max(0, (clientNow - data.serverNow) / 2): Math.max(0, NaN) is NaN
Sample(clientNow, data) ==
    IF "serverNow" \in DOMAIN data THEN Max(0, OneWay(clientNow - data.serverNow)) ELSE NaN

\* [...h].sort((a, b) => a - b)
RECURSIVE Insert(_, _)
Insert(q, v) ==
    IF q = << >> THEN <<v>>
    ELSE IF v - Head(q) < 0 THEN <<v>> \o q
    ELSE <<Head(q)>> \o Insert(Tail(q), v)

RECURSIVE sort(_)
sort(h) == IF h = << >> THEN << >> ELSE Insert(sort(SubSeq(h, 1, Len(h) - 1)), h[Len(h)])

\* mutant: pop() written for shift(): the newest sample is the one dropped
updateLatencyKeepsOldest(newLatency) ==
    LET pushed == Append(latencyHistory, newLatency)
        kept == IF Len(pushed) > WindowSize THEN SubSeq(pushed, 1, WindowSize) ELSE pushed
        sorted == sort(kept)
    IN  [history |-> kept, median |-> sorted[(Len(sorted) \div 2) + 1]]

RECURSIVE Sum(_)
Sum(h) == IF h = << >> THEN 0 ELSE Head(h) + Sum(Tail(h))

\* mutant: the mean of the window instead of its median
updateLatencyMean(newLatency) ==
    LET pushed == Append(latencyHistory, newLatency)
        kept == IF Len(pushed) > WindowSize THEN Tail(pushed) ELSE pushed
    IN  [history |-> kept, median |-> Sum(kept) \div Len(kept)]

\* updateLatency: the history and the smoothed latency after newLatency is recorded
updateLatency(newLatency) ==
    LET pushed == Append(latencyHistory, newLatency)
        kept == IF Len(pushed) > WindowSize THEN Tail(pushed) ELSE pushed
        sorted == sort(kept)
    IN  [history |-> kept, median |-> sorted[(Len(sorted) \div 2) + 1]]

\* latencyRef.current after updateLatency. The comparator (a, b) => a - b returns
\* NaN against a NaN sample, the order sort() leaves is then implementation-defined
\* and the middle element may be any element of the window.
Medians(up) ==
    IF \E i \in DOMAIN up.history : up.history[i] = NaN
    THEN {up.history[i] : i \in DOMAIN up.history}
    ELSE {up.median}

\* getCurrentSyncTime with the closure's syncData sd, Date.now() = ClientNow(t) and
\* latencyRef.current = lat: << >> for null, else <<the SyncTime>>, times in halves
\* of a millisecond
getCurrentSyncTime(sd, t, lat) ==
    IF sd = << >> THEN << >>
    ELSE IF lat = NaN \/ sd[1].serverStartTime = Undefined
         THEN << [songTime |-> NaN, loopCount |-> NaN, elapsedTime |-> NaN,
                  latency |-> lat] >>
    ELSE LET elapsedTime == (ClientNow(t) - sd[1].serverStartTime) * HalvesPerMs + lat
             length == actualDuration * HalvesPerMs
         IN  << [songTime |-> JsRem(elapsedTime, length),
                 loopCount |-> Floor(elapsedTime, length),
                 elapsedTime |-> elapsedTime,
                 latency |-> lat] >>

\* the part of a sync the client keeps and the model follows
Kept(data) ==
    [serverStartTime |-> Field(data, "serverStartTime"),
     songDuration |-> Field(data, "songDuration")]

\* The messages below carry the fields the client's listeners read.
\* a sync for this client, emitted when the server's clock read t
SyncFor(t) ==
    [type |-> "sync", serverStartTime |-> serverStartTime, serverNow |-> t,
     songDuration |-> SONG_DURATION, userId |-> sid, users |-> {}]
\* a heartbeat, emitted when the server's clock read t
HeartbeatAt(t) ==
    [type |-> "heartbeat", serverStartTime |-> serverStartTime, serverNow |-> t]
\* a pong, answering a ping the client stamped c
PongFor(c) ==
    [type |-> "pong", clientTime |-> c]

\* the handler touches neither the socket's binding nor the presence map
QuietLink == UNCHANGED <<sid, usersRef, userId, konamiCount, outbox>>

\* the handler touches neither the audio nor the refs and state of App
QuietAudio == UNCHANGED <<duration, isPlaying, lastResync, starting, hasTriggeredAudio,
                          lastCorrection, secretModeActive, lastActivation>>

\* useEffect of useMultiplayer, first run: io(SERVER_URL); the listeners close over
\* syncData = null.  Date.now() is some 10^12 ms while the clocks here are small
\* numbers: the page is opened once its clock reads at least the cooldown, so that
\* the initial 0 of lastResyncRef lies as far back as it does for a real clock.
Mount(skew) ==
    /\ socket = "none"
    /\ ClientNow(now) + skew >= ResyncCooldown
    /\ clockSkew' = skew
    /\ socket' = "connecting"
    /\ listenerSync' = (syncData # << >>)
    /\ clientSent' = << >>
    /\ clientEvent' = [kind |-> "mount"]
    /\ QuietAudio
    /\ UNCHANGED <<syncData, latencyHistory, latency, inbox, recorded, synced>>
    /\ UNCHANGED serverVars
    /\ QuietLink

\* mutant: the ping is emitted whether the socket is connected or not
measureLatencyUnguarded == << [type |-> "ping", clientTime |-> ClientNow(now)] >>

\* measureLatency: the messages it emits
measureLatency ==
    IF IsConnected THEN << [type |-> "ping", clientTime |-> ClientNow(now)] >> ELSE << >>

\* The transport connects: the server's connection handler has emitted the initial
\* sync delay ms ago, the client's 'connect' listener sets isConnected and calls
\* measureLatency.
TransportConnect(delay) ==
    /\ socket = "connecting"
    /\ now - delay >= serverStartTime
    /\ socket' = "connected"
    /\ inbox' = << SyncFor(now - delay) >>
    /\ clientSent' = << [type |-> "ping", clientTime |-> ClientNow(now)] >>
    /\ clientEvent' = [kind |-> "connect"]
    /\ synced' = FALSE
    /\ QuietAudio
    /\ UNCHANGED <<clockSkew, syncData, listenerSync, latencyHistory, latency, recorded>>
    /\ UNCHANGED serverVars
    /\ QuietLink

\* The transport drops; socket.io-client reconnects by itself with the same socket
\* and listeners.  What was on the wire is lost.
TransportDisconnect ==
    /\ socket = "connected"
    /\ socket' = "connecting"
    /\ inbox' = << >>
    /\ clientSent' = << >>
    /\ clientEvent' = [kind |-> "disconnect"]
    /\ synced' = FALSE
    /\ QuietAudio
    /\ UNCHANGED <<clockSkew, syncData, listenerSync, latencyHistory, latency, recorded>>
    /\ UNCHANGED serverVars
    /\ QuietLink

\* socket.on('sync').  setSyncData makes the connection effect run again when
\* syncData?.songDuration changed: its cleanup disconnects the socket and a new
\* socket is made whose listeners close over the new syncData.
onSync(data, rest) ==
    LET up == updateLatency(Sample(ClientNow(now), data))
        rerun == syncData = << >> \/ syncData[1].songDuration # data.songDuration
        throws == "users" \notin DOMAIN data
    IN  /\ latencyHistory' = up.history
        /\ latency' \in Medians(up)
        /\ recorded' = Append(recorded, Sample(ClientNow(now), data))
        /\ syncData' = << Kept(data) >>
        /\ userId' = data.userId
        /\ usersRef' = IF throws THEN usersRef
                       ELSE [i \in {u.id : u \in data.users} |->
                                CHOOSE u \in data.users : u.id = i]
        /\ IF rerun
           THEN /\ socket' = "connecting"
                /\ listenerSync' = TRUE
                /\ inbox' = << >>
                /\ synced' = FALSE
                /\ sid' = 0
           ELSE /\ inbox' = rest
                /\ synced' = TRUE
                /\ UNCHANGED <<socket, listenerSync, sid>>
        /\ UNCHANGED <<konamiCount, outbox>>
        /\ clientSent' = << >>
        /\ clientEvent' = [kind |-> IF throws THEN "uncaughtException" ELSE "sync",
                           rerun |-> rerun]
        /\ QuietAudio
        /\ UNCHANGED <<clockSkew, now>>

\* socket.on('pong')
onPong(data, rest) ==
    LET up == updateLatency(OneWay(ClientNow(now) - data.clientTime))
    IN  /\ latencyHistory' = up.history
        /\ latency' \in Medians(up)
        /\ recorded' = Append(recorded, OneWay(ClientNow(now) - data.clientTime))
        /\ inbox' = rest
        /\ clientSent' = << >>
        /\ clientEvent' = [kind |-> "pong"]
        /\ QuietAudio
        /\ UNCHANGED <<clockSkew, now, socket, syncData, listenerSync, synced>>
        /\ QuietLink

\* mutant: the plain distance, the end of the loop not taken into account
adjustedDriftPlain(expectedTime, currentTime) == Abs(expectedTime - currentTime)

\* Math.min(drift, duration - drift) of the drift callback, ms
adjustedDrift(expectedTime, currentTime) ==
    LET drift == Abs(expectedTime - currentTime)
    IN  Min(drift, duration - drift)

\* mutant: the callback without the cooldown
onDriftNoCooldown(expectedTime, currentTime, r1, r2, lat) ==
    IF adjustedDrift(expectedTime, currentTime) > DRIFT_THRESHOLD
         /\ getCurrentSyncTime(syncData, r2, lat) # << >>
    THEN [corrected |-> TRUE, cooling |-> FALSE,
          played |-> getCurrentSyncTime(syncData, r2, lat)]
    ELSE [corrected |-> FALSE, cooling |-> FALSE, played |-> << >>]

\* the callback App hands to setOnDrift, called with Date.now() = ClientNow(r1); a
\* getCurrentSyncTime it makes reads Date.now() = ClientNow(r2).  lat is
\* latencyRef.current.  Yields what the callback did.
onDrift(expectedTime, currentTime, r1, r2, lat) ==
    IF ClientNow(r1) - lastResync < ResyncCooldown
    THEN [corrected |-> FALSE, cooling |-> TRUE, played |-> << >>]
    ELSE IF adjustedDrift(expectedTime, currentTime) > DRIFT_THRESHOLD
              /\ getCurrentSyncTime(syncData, r2, lat) # << >>
         THEN [corrected |-> TRUE, cooling |-> FALSE,
               played |-> getCurrentSyncTime(syncData, r2, lat)]
         ELSE [corrected |-> FALSE, cooling |-> FALSE, played |-> << >>]

\* onDriftRef.current is set: the drift effect ran with isPlaying and duration
OnDriftSet == isPlaying /\ duration > 0

\* socket.on('heartbeat') while the audio hook's currentTime is the given one
onHeartbeat(data, currentTime, rest) ==
    LET clientNow == ClientNow(now)
        up == updateLatency(Sample(clientNow, data))
        expectedSongTime == IF "serverStartTime" \in DOMAIN data
                            THEN JsRem(clientNow - data.serverStartTime, actualDuration)
                            ELSE NaN
        check == OnDriftSet /\ listenerSync
    IN  /\ latencyHistory' = up.history
        /\ latency' \in Medians(up)
        /\ recorded' = Append(recorded, Sample(clientNow, data))
        /\ inbox' = rest
        /\ clientSent' = << >>
        /\ \E r1 \in After(now) : \E r2 \in After(r1) :
             LET did == IF check /\ expectedSongTime # NaN
                        THEN onDrift(expectedSongTime, currentTime, r1, r2, latency')
                        ELSE [corrected |-> FALSE, cooling |-> FALSE, played |-> << >>]
             IN  /\ clientEvent' = [kind |-> "heartbeat",
                                    expected |-> expectedSongTime,
                                    actual |-> currentTime,
                                    checked |-> check,
                                    at |-> ClientNow(r1),
                                    did |-> did]
                 /\ lastResync' = IF did.corrected THEN ClientNow(r1) ELSE lastResync
                 /\ lastCorrection' = IF did.corrected THEN << ClientNow(r1) >>
                                      ELSE lastCorrection
                 /\ now' = IF ~check THEN now ELSE IF did.corrected THEN r2 ELSE r1
        /\ UNCHANGED <<clockSkew, socket, syncData, listenerSync, synced,
                       duration, isPlaying, starting, hasTriggeredAudio,
                       secretModeActive, lastActivation>>
        /\ QuietLink

\* the audio hook's currentTime: 0 until playback starts
Playback == IF isPlaying THEN Positions ELSE {0}

\* The client's clock moves on between two of its handlers; what is on the wire is
\* handled first.
ClientTick ==
    /\ socket # "none"
    /\ inbox = << >>
    /\ \E t \in TimePoints : t > now /\ now' = t
    /\ clientSent' = << >>
    /\ clientEvent' = [kind |-> "tick"]
    /\ QuietAudio
    /\ UNCHANGED <<clockSkew, socket, syncData, listenerSync, latencyHistory, latency,
                   inbox, recorded, synced>>
    /\ UNCHANGED <<serverStartTime, konamiActivations, lastKonamiActivation, users,
                   sockets, issued, sent, event, acceptedCount, lastAccepted, lastLoop,
                   firstSync>>
    /\ QuietLink

\* The client handles the oldest message on the wire.
\* what a listener that only touches the presence map or a counter leaves alone
QuietListener(rest) ==
    /\ inbox' = rest
    /\ clientSent' = << >>
    /\ QuietAudio
    /\ UNCHANGED <<clockSkew, now, socket, syncData, listenerSync, latencyHistory,
                   latency, recorded, synced, sid, userId, outbox>>

onUserJoined(data, rest) ==
    /\ usersRef' = MapSet(usersRef, data.user.id, data.user)
    /\ clientEvent' = [kind |-> "userJoined"]
    /\ UNCHANGED konamiCount
    /\ QuietListener(rest)

onUserLeft(data, rest) ==
    /\ usersRef' = MapDelete(usersRef, data.userId)
    /\ clientEvent' = [kind |-> "userLeft"]
    /\ UNCHANGED konamiCount
    /\ QuietListener(rest)

onKonamiCount(data, rest) ==
    /\ konamiCount' = data.count
    /\ clientEvent' = [kind |-> "konamiCount"]
    /\ UNCHANGED usersRef
    /\ QuietListener(rest)

onCursorUpdateDropsPointer(data, rest) ==
    /\ usersRef' = usersRef
    /\ clientEvent' = [kind |-> "cursorUpdate", known |-> data.userId \in DOMAIN usersRef]
    /\ UNCHANGED konamiCount
    /\ QuietListener(rest)

onCursorUpdate(data, rest) ==
    /\ usersRef' = IF data.userId \in DOMAIN usersRef
                   THEN [usersRef EXCEPT ![data.userId].x = data.x,
                                         ![data.userId].y = data.y]
                   ELSE usersRef
    /\ clientEvent' = [kind |-> "cursorUpdate", known |-> data.userId \in DOMAIN usersRef]
    /\ UNCHANGED konamiCount
    /\ QuietListener(rest)

Receive(bound) ==
    /\ IsConnected
    /\ inbox # << >>
    /\ Len(recorded) < bound
    /\ LET data == Head(inbox)
           rest == Tail(inbox)
       IN  IF data.type = "sync" THEN onSync(data, rest)
           ELSE IF data.type = "pong" THEN onPong(data, rest)
           ELSE IF data.type = "heartbeat"
                THEN \E a \in Playback : onHeartbeat(data, a, rest)
           ELSE IF data.type = "userJoined" THEN onUserJoined(data, rest)
           ELSE IF data.type = "userLeft" THEN onUserLeft(data, rest)
           ELSE IF data.type = "cursorUpdate" THEN onCursorUpdate(data, rest)
           ELSE onKonamiCount(data, rest)
    /\ UNCHANGED <<serverStartTime, konamiActivations, lastKonamiActivation, users,
                   sockets, issued, sent, event, acceptedCount, lastAccepted, lastLoop,
                   firstSync>>

\* The server answers a ping the client sent delay ms ago, and the client handles
\* the pong; everything sent to the client before has been handled.
PongArrives(delay, bound) ==
    /\ IsConnected
    /\ now - delay >= serverStartTime
    /\ inbox = << >>
    /\ Len(recorded) < bound
    /\ onPong(PongFor(ClientNow(now) - delay), << >>)
    /\ UNCHANGED <<serverStartTime, konamiActivations, lastKonamiActivation, users,
                   sockets, issued, sent, event, acceptedCount, lastAccepted, lastLoop,
                   firstSync>>

\* A heartbeat the server emitted delay ms ago reaches the client, which handles it.
HeartbeatArrives(delay, bound) ==
    /\ IsConnected
    /\ now - delay >= serverStartTime
    /\ inbox = << >>
    /\ Len(recorded) < bound
    /\ \E a \in Playback : onHeartbeat(HeartbeatAt(now - delay), a, << >>)
    /\ UNCHANGED <<serverStartTime, konamiActivations, lastKonamiActivation, users,
                   sockets, issued, sent, event, acceptedCount, lastAccepted, lastLoop,
                   firstSync>>

\* The audio hook has loaded the audio and reports its duration.
AudioLoaded(d) ==
    /\ duration = 0
    /\ duration' = d
    /\ clientSent' = << >>
    /\ clientEvent' = [kind |-> "loaded"]
    /\ UNCHANGED <<clockSkew, socket, syncData, listenerSync, latencyHistory, latency,
                   isPlaying, lastResync, starting, hasTriggeredAudio, inbox, recorded,
                   lastCorrection, synced, secretModeActive, lastActivation>>
    /\ UNCHANGED serverVars
    /\ QuietLink

\* handleFirstInteraction on a mousedown, mousemove, touch, keydown or click, up to
\* the first await of startWithSync.  The call keeps the syncData and isConnected
\* of the render that made it.
handleFirstInteraction ==
    /\ socket # "none"
    /\ ~isPlaying
    /\ duration > 0
    /\ ~hasTriggeredAudio
    /\ Len(starting) < MaxStarts
    /\ starting' = Append(starting, [sync |-> syncData, connected |-> IsConnected])
    /\ clientSent' = << >>
    /\ clientEvent' = [kind |-> "interaction"]
    /\ UNCHANGED <<clockSkew, socket, syncData, listenerSync, latencyHistory, latency,
                   duration, isPlaying, lastResync, hasTriggeredAudio, inbox, recorded,
                   lastCorrection, synced, secretModeActive, lastActivation>>
    /\ UNCHANGED serverVars
    /\ QuietLink

\* startWithSync from `await ensureToneStarted()` on, and the rest of
\* handleFirstInteraction: playAt at the estimated position when the call has
\* syncData and isConnected, else playAt(0, 0).  playAt starts playback.
startWithSync ==
    /\ starting # << >>
    /\ starting' = Tail(starting)
    /\ LET call == Head(starting)
           freshSync == getCurrentSyncTime(call.sync, now, latency)
           synchronised == freshSync # << >> /\ call.connected
       IN  \E r \in After(now) :
             /\ lastResync' = IF synchronised THEN ClientNow(r) ELSE lastResync
             /\ lastCorrection' = IF synchronised THEN << ClientNow(r) >> ELSE lastCorrection
             /\ clientEvent' = [kind |-> "start", synced |-> synchronised,
                                at |-> ClientNow(now),
                                played |-> IF synchronised THEN freshSync ELSE << >>]
             /\ now' = r
    /\ isPlaying' = TRUE
    /\ hasTriggeredAudio' = TRUE
    /\ clientSent' = << >>
    /\ UNCHANGED <<clockSkew, socket, syncData, listenerSync, latencyHistory, latency,
                   duration, inbox, recorded, synced, secretModeActive, lastActivation>>
    /\ UNCHANGED <<serverStartTime, konamiActivations, lastKonamiActivation, users,
                   sockets, issued, sent, event, acceptedCount, lastAccepted, lastLoop,
                   firstSync>>
    /\ QuietLink

\* setInterval(() => measureLatency(), 5000): the timer callback
LatencyTimer ==
    /\ socket # "none"
    /\ clientSent' = measureLatency
    /\ clientEvent' = [kind |-> "latencyTimer"]
    /\ QuietAudio
    /\ UNCHANGED <<clockSkew, socket, syncData, listenerSync, latencyHistory, latency,
                   inbox, recorded, synced>>
    /\ UNCHANGED serverVars
    /\ QuietLink

\* sendCursorPosition(x, y): the messages it emits
sendCursorPosition(x, y) ==
    IF IsConnected THEN << [type |-> "cursorMove", x |-> x, y |-> y] >> ELSE << >>

\* A mousemove on the window.  The listener that calls sendCursorPosition is
\* registered by an effect only while isConnected.
MouseMove(data) ==
    /\ socket # "none"
    /\ clientSent' = IF IsConnected THEN sendCursorPosition(data.x, data.y) ELSE << >>
    /\ clientEvent' = [kind |-> "mousemove"]
    /\ QuietAudio
    /\ UNCHANGED <<clockSkew, socket, syncData, listenerSync, latencyHistory, latency,
                   inbox, recorded, synced>>
    /\ UNCHANGED serverVars
    /\ QuietLink

\* activateKonami: the messages it emits
activateKonami ==
    IF IsConnected THEN << [type |-> "konamiActivated"] >> ELSE << >>

\* checkKeySequence (checkSwipeSequence is the same) once the last ten keys are the
\* code: the debounce, then handleKonamiActivate of App, which toggles the secret
\* mode and calls activateKonami when it turns it on.
checkKeySequence ==
    /\ socket # "none"
    /\ IF ClientNow(now) - lastActivation < ACTIVATION_DEBOUNCE
       THEN /\ clientSent' = << >>
            /\ clientEvent' = [kind |-> "konami", debounced |-> TRUE]
            /\ UNCHANGED <<secretModeActive, lastActivation>>
       ELSE /\ lastActivation' = ClientNow(now)
            /\ secretModeActive' = ~secretModeActive
            /\ clientSent' = IF ~secretModeActive THEN activateKonami ELSE << >>
            /\ clientEvent' = [kind |-> "konami", debounced |-> FALSE]
    /\ UNCHANGED <<duration, isPlaying, lastResync, starting, hasTriggeredAudio,
                   lastCorrection>>
    /\ UNCHANGED <<clockSkew, socket, syncData, listenerSync, latencyHistory, latency,
                   inbox, recorded, synced>>
    /\ UNCHANGED serverVars
    /\ outbox' = outbox \o clientSent'
    /\ UNCHANGED <<sid, usersRef, userId, konamiCount>>

\* One client from page load on: connection, playback start and drift correction.
\* ---- the client on the wire to the server ----
\* socket ids of the followed client's sockets
ClientIds == (MaxSockets + 1)..(MaxSockets + MaxSessions)

\* colors generateColor() draws for the client's sockets
OwnColors == {"hsl(0, 80%, 60%)"}

\* pointer positions the client reports
OwnPayloads == {[x |-> 0, y |-> 10]}

\* the wire to the client takes another event
WireFree == Len(inbox) < MaxInbox

\* io(SERVER_URL) opens its connection: the handshake gives the socket its id
Dial ==
    /\ socket = "connecting"
    /\ sid = 0
    /\ ClientIds \ issued # {}
    /\ sid' = CHOOSE i \in ClientIds \ issued : \A j \in ClientIds \ issued : i <= j
    /\ issued' = issued \cup {sid'}
    /\ clientSent' = << >>
    /\ clientEvent' = [kind |-> "dial"]
    /\ QuietAudio
    /\ UNCHANGED <<clockSkew, socket, syncData, listenerSync, latencyHistory, latency,
                   inbox, recorded, synced, usersRef, userId, konamiCount, outbox>>
    /\ UNCHANGED <<now, serverStartTime, konamiActivations, lastKonamiActivation, users,
                   sockets, sent, event, acceptedCount, lastAccepted, lastLoop,
                   firstSync>>

\* the server's connection handler runs for the client's socket
Accept(color) ==
    /\ socket = "connecting"
    /\ sid # 0
    /\ sid \notin Connected
    /\ WireFree
    /\ onConnection(sid, color)

\* 'connect' on the client's socket; the sync is on the wire already
LinkConnect ==
    /\ socket = "connecting"
    /\ sid \in Connected
    /\ socket' = "connected"
    /\ clientSent' = << [type |-> "ping", clientTime |-> ClientNow(now)] >>
    /\ clientEvent' = [kind |-> "connect"]
    /\ synced' = FALSE
    /\ QuietAudio
    /\ UNCHANGED <<clockSkew, syncData, listenerSync, latencyHistory, latency, recorded,
                   inbox>>
    /\ UNCHANGED serverVars
    /\ QuietLink

\* another viewer connects
OtherConnection(id, color) ==
    /\ socket # "none"
    /\ Cardinality(Connected \cap SocketIds) < MaxViewers
    /\ WireFree
    /\ Connection(id, color)

\* the server handles the disconnect of another viewer's socket or of a socket
\* the client has closed
Leave(id) ==
    /\ socket # "none"
    /\ id # sid
    /\ WireFree
    /\ Disconnect(id)

\* the server handles a cursorMove of another viewer or of the client
Move(id, data) ==
    /\ id = sid => IsConnected /\ data \in OwnPayloads
    /\ WireFree
    /\ CursorMove(id, data)

\* the client and the other viewers of one server
NextPresence ==
    \/ Mount(0)
    \/ Dial
    \/ \E color \in OwnColors : Accept(color)
    \/ LinkConnect
    \/ Receive(MaxBeats)
    \/ \E id \in SocketIds, color \in Colors : OtherConnection(id, color)
    \/ \E id \in SocketIds \cup ClientIds : Leave(id)
    \/ \E id \in SocketIds \cup {sid}, data \in CursorPayloads : Move(id, data)

SpecPresence == Init /\ [][NextPresence]_vars

\* the server handles a konamiActivated of the client's socket
KonamiArrives ==
    /\ outbox # << >>
    /\ sid \in Connected
    /\ WireFree
    /\ onKonamiActivated(sid)

\* the gestures of a synced client against the server's gate, the clock running
NextGesture ==
    \/ Tick
    \/ Mount(0)
    \/ Dial
    \/ \E color \in OwnColors : Accept(color)
    \/ LinkConnect
    \/ Receive(MaxBeats)
    \/ synced /\ outbox = << >> /\ checkKeySequence
    \/ KonamiArrives

SpecGesture == Init /\ [][NextGesture]_vars

\* loop durations (s) a server configured for another audio file reports
\* ("adjust to match your audio")
ReportedDurations == {30}

\* the sync of a server whose SONG_DURATION is d
SyncReporting(t, d) == [SyncFor(t) EXCEPT !.songDuration = d]

\* the socket connects to such a server: 'connect', then its sync arrives
ConnectReporting(delay, d) ==
    /\ socket = "connecting"
    /\ now - delay >= serverStartTime
    /\ socket' = "connected"
    /\ inbox' = << SyncReporting(now - delay, d) >>
    /\ clientSent' = << [type |-> "ping", clientTime |-> ClientNow(now)] >>
    /\ clientEvent' = [kind |-> "connect"]
    /\ synced' = FALSE
    /\ QuietAudio
    /\ UNCHANGED <<clockSkew, syncData, listenerSync, latencyHistory, latency, recorded>>
    /\ UNCHANGED serverVars
    /\ QuietLink

\* a caller of the hook's getCurrentSyncTime reads the estimate
Estimate ==
    /\ socket # "none"
    /\ clientSent' = << >>
    /\ clientEvent' = [kind |-> "estimate",
                       result |-> getCurrentSyncTime(syncData, now, latency)]
    /\ QuietAudio
    /\ UNCHANGED <<clockSkew, socket, syncData, listenerSync, latencyHistory, latency,
                   inbox, recorded, synced>>
    /\ UNCHANGED serverVars
    /\ QuietLink

\* a sync or a heartbeat stamped t with one field missing
GarbledMessages(t) ==
    {[type |-> "heartbeat", serverStartTime |-> serverStartTime],
     [type |-> "heartbeat", serverNow |-> t],
     [type |-> "sync", serverStartTime |-> serverStartTime,
      songDuration |-> SONG_DURATION, userId |-> sid, users |-> {}],
     [type |-> "sync", serverStartTime |-> serverStartTime, serverNow |-> t,
      songDuration |-> SONG_DURATION, userId |-> sid]}

\* such a message reaches its listener
GarbledArrives(delay, bound) ==
    /\ IsConnected
    /\ now - delay >= serverStartTime
    /\ inbox = << >>
    /\ Len(recorded) < bound
    /\ \E data \in GarbledMessages(now - delay) :
          IF data.type = "sync" THEN onSync(data, << >>)
          ELSE \E a \in Playback : onHeartbeat(data, a, << >>)
    /\ UNCHANGED <<serverStartTime, konamiActivations, lastKonamiActivation, users,
                   sockets, issued, sent, event, acceptedCount, lastAccepted, lastLoop,
                   firstSync>>

\* the client against a peer whose messages may lack a field
NextGarbled ==
    \/ Tick /\ socket = "none"
    \/ ClientTick
    \/ Mount(0)
    \/ \E d \in BeatDelays : TransportConnect(d)
    \/ Receive(MaxBeats)
    \/ \E d \in BeatDelays : HeartbeatArrives(d, MaxBeats)
    \/ \E d \in BeatDelays : GarbledArrives(d, MaxBeats)
    \/ Estimate

SpecGarbled == Init /\ [][NextGarbled]_vars

\* the client against a server with another loop duration
NextAdjusted ==
    \/ Tick /\ socket = "none"
    \/ ClientTick
    \/ Mount(0)
    \/ \E d \in BeatDelays : \E sd \in ReportedDurations : ConnectReporting(d, sd)
    \/ Receive(MaxBeats)
    \/ \E d \in AudioDurations : AudioLoaded(d)
    \/ Estimate

SpecAdjusted == Init /\ [][NextAdjusted]_vars

NextClient ==
    \/ Tick /\ socket = "none"
    \/ ClientTick
    \/ \E skew \in Skews : Mount(skew)
    \/ \E d \in BeatDelays : TransportConnect(d)
    \/ Receive(MaxBeats)
    \/ \E d \in BeatDelays : HeartbeatArrives(d, MaxBeats)
    \/ \E d \in AudioDurations : AudioLoaded(d)
    \/ handleFirstInteraction
    \/ startWithSync

SpecClient == Init /\ [][NextClient]_vars

\* The latency estimator alone: one client whose clock agrees with the server's,
\* within one reading of the clock.
NextLatency ==
    \/ Tick /\ socket = "none"
    \/ Mount(0)
    \/ \E d \in BeatDelays : TransportConnect(d)
    \/ Receive(MaxSamples)
    \/ \E d \in Delays : PongArrives(d, MaxSamples)
    \/ \E d \in Delays : HeartbeatArrives(d, MaxSamples)

SpecLatency == Init /\ [][NextLatency]_vars

\* One client whose transport drops and comes back, with the timers and the user
\* input that make it send, within one reading of the clock.
NextLink ==
    \/ Tick /\ socket = "none"
    \/ Mount(0)
    \/ \E d \in BeatDelays : TransportConnect(d)
    \/ TransportDisconnect
    \/ Receive(MaxBeats)
    \/ \E d \in BeatDelays : HeartbeatArrives(d, MaxBeats)
    \/ \E d \in AudioDurations : AudioLoaded(d)
    \/ handleFirstInteraction
    \/ startWithSync
    \/ LatencyTimer
    \/ \E data \in CursorPayloads : MouseMove(data)
    \/ checkKeySequence

SpecLink == Init /\ [][NextLink]_vars

\* ---- properties ----

\* the step is a run of the konamiActivated handler of socket id
KonamiStep(id) == event' = [kind |-> "konamiActivated", id |-> id]
\* the step accepted an activation
AcceptStep == acceptedCount' = acceptedCount + 1
MsgsOf(msgs, types) == {i \in DOMAIN msgs : msgs[i].type \in types}

\* C1: the registry holds exactly the currently open sessions, and after N joins
\* and M leaves it holds N - M entries.
RegistryMatchesOpenSessions ==
    /\ DOMAIN users = Connected
    /\ Cardinality(DOMAIN users) = Cardinality(issued) - Cardinality(issued \ Connected)

RegistryAfterJoinsAndLeave ==
    /\ event.kind = "disconnect"
    /\ Cardinality(issued) = 2
    /\ Cardinality(issued \ Connected) = 1
    /\ Cardinality(DOMAIN users) = 1

\* C2: for a viewer with an accepted activation, a further activation is accepted
\* exactly when it arrives 1000 ms or more after the last accepted one: two accepted
\* activations are never less than 1000 ms apart (t = 500 after t = 0 is rejected)
\* and one 1000 ms or more later is accepted (t = 1500).  The viewer's first
\* activation is accepted when the clock reads 1000 or more (a clock below 1000
\* is the case of C4).
DebounceWindowRule ==
    [][\A id \in SocketIds :
        KonamiStep(id) =>
            /\ id \in DOMAIN lastAccepted
                  => (AcceptStep <=> now - lastAccepted[id] >= 1000)
            /\ (id \notin DOMAIN lastAccepted /\ now >= 1000) => AcceptStep]_vars

SecondActivationAccepted ==
    /\ event = [kind |-> "konamiActivated", id |-> 1]
    /\ issued = {1}
    /\ acceptedCount = 2
    /\ lastAccepted[1] = now
    /\ now = serverStartTime + 1500
    /\ serverStartTime >= 1000

\* C3: debounce is per viewer: an activation is rejected only on account of the
\* sender's own record (its own accepted activation less than 1000 ms ago or, with
\* no accepted activation of its own, a clock below 1000), never on account of
\* another viewer's activations; an activation leaves the other viewers' records alone.
PerViewerDebounce ==
    [][\A id \in SocketIds :
        KonamiStep(id) =>
            /\ ~AcceptStep =>
                  \/ id \in DOMAIN lastAccepted /\ now - lastAccepted[id] < 1000
                  \/ id \notin DOMAIN lastAccepted /\ now < 1000
            /\ \A other \in DOMAIN lastKonamiActivation \ {id} :
                  /\ other \in DOMAIN lastKonamiActivation'
                  /\ lastKonamiActivation'[other] = lastKonamiActivation[other]]_vars

BothViewersAccepted ==
    /\ event = [kind |-> "konamiActivated", id |-> 2]
    /\ DOMAIN lastAccepted = {1, 2}
    /\ lastAccepted[2] = lastAccepted[1] + 100
    /\ acceptedCount = 2

\* C4: an activation from a viewer with no debounce entry is accepted whatever the
\* clock value: the counter goes up by one and now is recorded for the viewer.
FirstActivationAccepted ==
    [][\A id \in SocketIds :
        (KonamiStep(id) /\ id \notin DOMAIN lastKonamiActivation)
            => /\ konamiActivations' = konamiActivations + 1
               /\ id \in DOMAIN lastKonamiActivation'
               /\ lastKonamiActivation'[id] = now]_vars

\* C5: the activation counter never decreases and equals the number of accepted
\* activations; an accepted activation raises it by exactly one and the result
\* sent back carries the value after the increment.
CounterCountsAccepted ==
    /\ [](konamiActivations = acceptedCount)
    /\ [][/\ konamiActivations' >= konamiActivations
          /\ AcceptStep =>
                /\ konamiActivations' = konamiActivations + 1
                /\ sent' = << [type |-> "konamiCount", to |-> {event'.id},
                               count |-> konamiActivations + 1] >>]_vars

SecondResultSent ==
    /\ konamiActivations = 2
    /\ DOMAIN lastAccepted = {1, 2}
    /\ sent = << [type |-> "konamiCount", to |-> {2}, count |-> 2] >>

\* C6: a rejected activation changes nothing: counter, debounce map and registry
\* stay as they are and no message is sent.
RejectedChangesNothing ==
    [][\A id \in SocketIds :
        (KonamiStep(id) /\ ~AcceptStep)
            => /\ UNCHANGED <<konamiActivations, lastKonamiActivation, users, sockets>>
               /\ sent' = << >>]_vars

RejectedInsideWindow ==
    /\ event.kind = "konamiActivated"
    /\ sent = << >>
    /\ event.id \in DOMAIN lastKonamiActivation
    /\ now - lastKonamiActivation[event.id] = 500
    /\ konamiActivations = 1

\* C7: the viewer ids of the debounce map are a subset of the ids of the registry
\* (a disconnect removes the viewer from both).
DebounceMapWithinRegistry == DOMAIN lastKonamiActivation \subseteq DOMAIN users

\* C8: the loop position lies in [0, duration), at the current clock value and in
\* every Sync, Pong, Heartbeat and health response.
PositionInRange ==
    /\ getCurrentSongTime(now) >= 0
    /\ getCurrentSongTime(now) < DurationMs
    /\ \A i \in MsgsOf(sent, TimedTypes \cup {"health"}) :
          sent[i].songTime >= 0 /\ sent[i].songTime < DurationMs

PositionAfterWrap ==
    /\ now = serverStartTime + DurationMs + 4000
    /\ \E i \in MsgsOf(sent, {"heartbeat"}) : sent[i].songTime = 4000

\* C9: the loopCount carried by a Sync, Pong or Heartbeat is never below the one
\* carried by the message of these kinds sent before it.
LoopCountNonDecreasing ==
    \A i \in MsgsOf(sent, TimedTypes) : sent[i].loopCount >= lastLoop

LoopCountWentUp ==
    /\ lastLoop = 0
    /\ \E i \in MsgsOf(sent, TimedTypes) : sent[i].loopCount = 1

\* C10: loopCount = floor(elapsed / duration) and position = elapsed -
\* loopCount * duration; 25 s after the epoch the position is 4 s and loopCount 1.
LoopCountAndPosition ==
    LET e == getElapsedTime(now)
        n == getLoopCount(now)
        p == getCurrentSongTime(now)
    IN  /\ n * DurationMs <= e
        /\ e < (n + 1) * DurationMs
        /\ p = e - n * DurationMs
        /\ e = 25000 => (p = 4000 /\ n = 1)

TwentyFiveSeconds ==
    /\ getElapsedTime(now) = 25000
    /\ event.kind = "connection"
    /\ \E i \in MsgsOf(sent, {"sync"}) :
          /\ sent[i].serverNow = serverStartTime + 25000
          /\ sent[i].songTime = 4000
          /\ sent[i].loopCount = 1

RegistrySnapshot == {users[i] : i \in DOMAIN users}

\* C11: a position update from an active session is stored in the sender's registry
\* entry and one PositionUpdated with the sender's id and the new x, y goes to
\* every other active session, never to the sender.
PositionFanOut ==
    (event.kind = "cursorMove" /\ event.id \in Connected) =>
        /\ users[event.id].x = event.data.x
        /\ users[event.id].y = event.data.y
        /\ sent = << [type |-> "cursorUpdate", to |-> Connected \ {event.id},
                      userId |-> event.id, x |-> event.data.x, y |-> event.data.y] >>

PositionSentToTheOther ==
    /\ event.kind = "cursorMove"
    /\ event.id = 1
    /\ Connected = {1, 2}
    /\ sent[1].to = {2}
    /\ users[1].x = 12
    /\ users[2].x = DefaultCoord

\* C12: every Sync is a snapshot taken after the recipient's join: its session list
\* is the registry, it holds the recipient's session with the id and color of the
\* userId and userColor fields, and userCount is the length of the list.
SyncIsSnapshot ==
    \A i \in MsgsOf(sent, {"sync"}) :
        /\ sent[i].users = RegistrySnapshot
        /\ sent[i].userCount = Cardinality(sent[i].users)
        /\ sent[i].to = {sent[i].userId}
        /\ \E u \in sent[i].users :
              u.id = sent[i].userId /\ u.color = sent[i].userColor

InitialSyncWithTwoSessions ==
    /\ event = [kind |-> "connection", id |-> 2]
    /\ \E i \in MsgsOf(sent, {"sync"}) :
          /\ sent[i].userCount = 2
          /\ \E u \in sent[i].users : u.id = 1 /\ u.x = 12

\* C13: on connect, after the join and the Sync to the new session, exactly one
\* Joined describing the new session goes to every other active session and none
\* to the new one; its userCount is the registry size with the new session.
JoinedToOthers ==
    /\ event.kind = "connection" =>
          /\ Len(sent) = 2
          /\ sent[1].type = "sync"
          /\ sent[1].to = {event.id}
          /\ event.id \in DOMAIN users
          /\ sent[2] = [type |-> "userJoined", to |-> Connected \ {event.id},
                        user |-> users[event.id],
                        userCount |-> Cardinality(DOMAIN users)]
    /\ MsgsOf(sent, {"userJoined"}) # {} => event.kind = "connection"

SecondSessionAnnounced ==
    /\ event = [kind |-> "connection", id |-> 2]
    /\ sent[2].type = "userJoined"
    /\ sent[2].to = {1}
    /\ sent[2].user.id = 2
    /\ sent[2].userCount = 2

\* C14: on disconnect the session leaves the registry before Left is broadcast:
\* Left names the departed id, its userCount is the registry size after the
\* removal, and it is emitted for every disconnect, also when no session remains.
LeftAfterRemoval ==
    event.kind = "disconnect" =>
        /\ event.id \notin DOMAIN users
        /\ sent = << [type |-> "userLeft", to |-> Connected, userId |-> event.id,
                      userCount |-> Cardinality(DOMAIN users)] >>

LastSessionLeft ==
    /\ event.kind = "disconnect"
    /\ issued = {1, 2}
    /\ DOMAIN users = {}
    /\ sent = << [type |-> "userLeft", to |-> {}, userId |-> event.id, userCount |-> 0] >>

\* C15: a heartbeat tick broadcasts one Heartbeat to all sessions exactly when the
\* registry is not empty at the tick, and a Heartbeat is emitted by a tick only.
HeartbeatIffSessions ==
    /\ event.kind = "heartbeat" =>
          IF DOMAIN users # {}
          THEN /\ Len(sent) = 1
               /\ sent[1].type = "heartbeat"
               /\ sent[1].to = Connected
          ELSE sent = << >>
    /\ MsgsOf(sent, {"heartbeat"}) # {} => event.kind = "heartbeat"

HeartbeatToBoth ==
    /\ event.kind = "heartbeat"
    /\ Len(sent) = 1
    /\ sent[1].to = {1, 2}

\* C16: a Ping is answered by exactly one Pong, sent to the pinging session only,
\* with the client's send time unchanged; registry, counter and debounce map stay
\* as they are.
PingAnswered ==
    [][\A id \in SocketIds :
        (event'.kind = "ping" /\ event'.id = id) =>
            /\ Len(sent') = 1
            /\ sent'[1].type = "pong"
            /\ sent'[1].to = {id}
            /\ sent'[1].clientTime = event'.data
            /\ UNCHANGED <<users, konamiActivations, lastKonamiActivation>>]_vars

PongEchoesSeven ==
    /\ event = [kind |-> "ping", id |-> 1, data |-> 7]
    /\ Connected = {1, 2}
    /\ sent[1].clientTime = 7
    /\ sent[1].to = {1}
    /\ sent[1].serverTime # 7

\* C17: a resync request is answered by one Sync, sent to the requester only, with
\* the epoch, loop duration, viewer id and viewer color of that session's initial
\* Sync and the registry as it is at the request; the registry is not changed.
ResyncMatchesInitialSync ==
    [][\A id \in SocketIds :
        event' = [kind |-> "requestSync", id |-> id] =>
            /\ Len(sent') = 1
            /\ sent'[1].type = "sync"
            /\ sent'[1].to = {id}
            /\ id \in DOMAIN firstSync
            /\ Identity(sent'[1]) = firstSync[id]
            /\ sent'[1].users = RegistrySnapshot
            /\ sent'[1].userCount = Cardinality(DOMAIN users)
            /\ users' = users]_vars

ResyncAfterChanges ==
    /\ event = [kind |-> "requestSync", id |-> 1]
    /\ Connected = {1, 2}
    /\ firstSync[1].userColor # firstSync[2].userColor
    /\ sent[1].userColor = firstSync[1].userColor
    /\ sent[1].userCount = 2

\* C18: the result of an accepted activation goes to the session that sent the
\* activation and to no other session.
ResultToSenderOnly ==
    \A i \in MsgsOf(sent, {"konamiCount"}) :
        /\ event.kind = "konamiActivated"
        /\ sent[i].to = {event.id}
        /\ Len(sent) = 1

ResultWithTwoConnected ==
    /\ event = [kind |-> "konamiActivated", id |-> 1]
    /\ Connected = {1, 2}
    /\ sent = << [type |-> "konamiCount", to |-> {1}, count |-> 1] >>

\* C19: a position update whose session id is not in the registry (handled after
\* that session's disconnect) is a no-op: the registry is unchanged, no entry is
\* created and nothing is broadcast.
LateMoveIsNoOp ==
    [][\A id \in SocketIds :
        (event'.kind = "cursorMove" /\ event'.id = id /\ id \notin DOMAIN users) =>
            /\ users' = users
            /\ sent' = << >>]_vars

LateMoveIgnored ==
    /\ event.kind = "cursorMove"
    /\ event.id = 1
    /\ DOMAIN users = {2}
    /\ issued = {1, 2}
    /\ sent = << >>

\* C20: an activation whose session id is not (or no longer) in the registry is a
\* no-op: counter and debounce map are unchanged and no result is sent.
LateActivationIsNoOp ==
    [][\A id \in SocketIds :
        (event' = [kind |-> "konamiActivated", id |-> id] /\ id \notin DOMAIN users) =>
            /\ UNCHANGED <<konamiActivations, lastKonamiActivation>>
            /\ sent' = << >>]_vars

WellFormed(data) == {"x", "y"} \subseteq DOMAIN data

\* C21: a cursorMove whose payload is missing, or lacks x or y, is ignored: the
\* server does not fail, the registry is unchanged and nothing is broadcast.
MalformedIsIgnored ==
    [][(event'.kind \in {"cursorMove", "uncaughtException"} /\ ~WellFormed(event'.data)) =>
            /\ event'.kind # "uncaughtException"
            /\ users' = users
            /\ sent' = << >>]_vars

\* C22: every session of the registry has x and y in [0,1] (0..10 in tenths),
\* whatever the clients send.
PointerNormalized ==
    \A i \in DOMAIN users :
        /\ 0 <= users[i].x /\ users[i].x <= 10
        /\ 0 <= users[i].y /\ users[i].y <= 10

\* C27: the latency window never holds more than 10 samples: its length is
\* min(samples recorded, 10) and it holds the most recent samples in arrival order.
WindowHoldsLatest ==
    /\ Len(latencyHistory) <= WindowSize
    /\ Len(latencyHistory) = Min(Len(recorded), WindowSize)
    /\ latencyHistory =
          SubSeq(recorded, Len(recorded) - Len(latencyHistory) + 1, Len(recorded))

OldestEvicted ==
    /\ Len(recorded) = WindowSize + 2
    /\ Len(latencyHistory) = WindowSize
    /\ recorded[2] = 100
    /\ latencyHistory[1] = 10000
    /\ latencyHistory[WindowSize] = 100

Below(h, v) == {i \in DOMAIN h : h[i] < v}
Above(h, v) == {i \in DOMAIN h : h[i] > v}

\* C28: the smoothed latency is the median of the window (the upper one of an even
\* window); with nine samples of at most 60 ms and one sample of 5000 ms in the
\* window, in any order, it is at most 60 ms.
MedianResistsOutlier ==
    latencyHistory # << >> =>
        /\ \E i \in DOMAIN latencyHistory : latencyHistory[i] = latency
        /\ Cardinality(Below(latencyHistory, latency)) <= Len(latencyHistory) \div 2
        /\ Cardinality(Above(latencyHistory, latency)) <= (Len(latencyHistory) - 1) \div 2
        /\ (/\ Len(latencyHistory) = WindowSize
            /\ Cardinality(Above(latencyHistory, 60 * HalvesPerMs)) = 1)
           => latency <= 60 * HalvesPerMs

OutlierAmongNine ==
    /\ Len(latencyHistory) = WindowSize
    /\ latencyHistory[4] = 5000 * HalvesPerMs
    /\ \A i \in DOMAIN latencyHistory \ {4} : latencyHistory[i] = 50 * HalvesPerMs
    /\ latency = 50 * HalvesPerMs

\* the distance of two positions on a loop of the given length
Circular(a, b, length) == Min(Abs(a - b), length - Abs(a - b))

\* C23: the drift the correction decision uses is the circular distance
\* min(|expected - actual|, duration - |expected - actual|): a drift check outside
\* the cooldown corrects exactly when that distance exceeds 150 ms; with duration
\* 21.0 s, actual 20.9 s and expected 0.2 s the distance is 0.3 s and playback is
\* corrected.
DriftIsCircular ==
    (clientEvent.kind = "heartbeat" /\ clientEvent.checked /\ ~clientEvent.did.cooling)
        => /\ clientEvent.did.corrected
                <=> Circular(clientEvent.expected, clientEvent.actual, duration)
                        > DRIFT_THRESHOLD
           /\ (duration = 21000 /\ clientEvent.actual = 20900 /\ clientEvent.expected = 200)
                => /\ Circular(clientEvent.expected, clientEvent.actual, duration) = 300
                   /\ clientEvent.did.corrected

CorrectedAcrossLoopEnd ==
    /\ clientEvent.kind = "heartbeat"
    /\ duration = 21000
    /\ clientEvent.actual = 20900
    /\ clientEvent.expected = 200
    /\ clientEvent.did.corrected

\* C24: a heartbeat handled while the client is playing and has sync data restarts
\* playback at the estimated position and loop count if and only if the adjusted
\* drift is greater than 150 ms and at least 3000 ms have passed since the last
\* correction.
CorrectionIffDriftAndCooldown ==
    [][(clientEvent'.kind = "heartbeat" /\ isPlaying /\ syncData # << >>)
          => /\ clientEvent'.checked
             /\ clientEvent'.did.corrected
                  <=> /\ Circular(clientEvent'.expected, clientEvent'.actual, duration)
                            > DRIFT_THRESHOLD
                      /\ \/ lastCorrection = << >>
                         \/ clientEvent'.at - lastCorrection[1] >= ResyncCooldown
             /\ clientEvent'.did.corrected
                  => /\ clientEvent'.did.played # << >>
                     /\ lastCorrection' = << clientEvent'.at >>]_vars

DriftHeldBackByCooldown ==
    /\ clientEvent.kind = "heartbeat"
    /\ clientEvent.checked
    /\ clientEvent.did.cooling
    /\ lastCorrection # << >>
    /\ clientEvent.at - lastCorrection[1] < ResyncCooldown
    /\ clientEvent.at - lastCorrection[1] > 0
    /\ Circular(clientEvent.expected, clientEvent.actual, duration) > DRIFT_THRESHOLD

\* the step restarted playback at the estimated position: a synchronised start or
\* a drift correction
Restarted ==
    \/ clientEvent'.kind = "start" /\ clientEvent'.synced
    \/ clientEvent'.kind = "heartbeat" /\ clientEvent'.did.corrected

\* C25: two successive playback corrections, the initial synchronised start
\* counting as one, are never less than 3000 ms apart.
CorrectionsSpacedByCooldown ==
    [][(Restarted /\ lastCorrection # << >>)
          => lastCorrection'[1] - lastCorrection[1] >= ResyncCooldown]_vars

\* C26: whenever the client decides to correct drift it sends a requestSync to the
\* server (and restarts playback from the sync that answers it).
CorrectionRequestsSync ==
    (clientEvent.kind = "heartbeat" /\ clientEvent.did.corrected)
        => \E i \in DOMAIN clientSent : clientSent[i].type = "requestSync"

\* C29: every position the client derives from the epoch lies in [0, duration): the
\* expected position computed on a heartbeat, and the songTime of the estimator
\* where playback is started or corrected, whatever the client's clock reads.
ClientPositionsInLoop ==
    /\ clientEvent.kind = "heartbeat"
          => /\ 0 <= clientEvent.expected /\ clientEvent.expected < actualDuration
             /\ clientEvent.did.corrected
                  => /\ 0 <= clientEvent.did.played[1].songTime
                     /\ clientEvent.did.played[1].songTime < actualDuration * HalvesPerMs
    /\ (clientEvent.kind = "start" /\ clientEvent.synced)
          => /\ 0 <= clientEvent.played[1].songTime
             /\ clientEvent.played[1].songTime < actualDuration * HalvesPerMs

\* C30: a step that leaves the transport disconnected sends nothing (no ping, no
\* position, no resync request, no activation) and corrects no drift, and a drift
\* check is made only once a sync was handled on the current connection.
DisconnectedIsSilent ==
    [][/\ socket' # "connected"
            => /\ clientSent' = << >>
               /\ ~(clientEvent'.kind = "heartbeat" /\ clientEvent'.did.corrected)
       /\ (clientEvent'.kind = "heartbeat" /\ clientEvent'.checked) => synced]_vars

TimerWhileDisconnected ==
    /\ clientEvent.kind = "latencyTimer"
    /\ socket = "connecting"
    /\ isPlaying
    /\ syncData # << >>
    /\ secretModeActive
    /\ clientSent = << >>

\* C32: a position update from viewer v changes only the x and y of v's own
\* registry entry: every other entry, every id and color, the set of registry keys,
\* the activation counter and the debounce map stay as they were.
CursorMoveFrame ==
    [][event'.kind = "cursorMove"
          => /\ DOMAIN users' = DOMAIN users
             /\ \A j \in DOMAIN users :
                   /\ j # event'.id => users'[j] = users[j]
                   /\ users'[j].id = users[j].id
                   /\ users'[j].color = users[j].color
             /\ konamiActivations' = konamiActivations
             /\ lastKonamiActivation' = lastKonamiActivation]_vars

MovedNextToAnother ==
    /\ event.kind = "cursorMove"
    /\ Cardinality(DOMAIN users) = 2
    /\ users[event.id].x = 0
    /\ users[event.id].y = 10
    /\ \E j \in DOMAIN users : j # event.id /\ users[j].x = 12

\* C33: a join with an id that is already in the registry fails: the existing
\* session keeps its color and pointer position and is not replaced by a fresh
\* default session.
JoinOfPresentIdFails ==
    [][(event'.kind = "connection" /\ event'.id \in DOMAIN users)
          => /\ users' = users
             /\ sockets' = sockets]_vars

\* the server clock reading a timed message carries
ServerNowOf(m) == IF m.type = "pong" THEN m.serverTime ELSE m.serverNow

\* C38: every sync, pong and heartbeat is consistent in itself: loopCount * duration
\* + position equals serverNow - epoch for the serverNow the same message carries.
TimedMessageConsistent ==
    \A i \in Timed(sent) :
        sent[i].loopCount * DurationMs + sent[i].songTime
            = ServerNowOf(sent[i]) - serverStartTime

\* C34: the expected position the heartbeat listener computes is the songTime
\* the estimator returns at the same instant, from the same latency and duration.
HeartbeatAgreesWithEstimator ==
    [][(clientEvent'.kind = "heartbeat" /\ syncData # << >>)
          => clientEvent'.expected * HalvesPerMs
                = getCurrentSyncTime(syncData, now, latency')[1].songTime]_vars

Settled == IsConnected /\ synced /\ sid \in Connected /\ inbox = << >>

\* C36: once everything in flight is delivered, the presence map of a connected
\* client has the ids, colors and pointer positions of the server's registry,
\* the pointer position of its own entry excepted.
PresenceAgrees ==
    Settled
        => /\ DOMAIN usersRef = DOMAIN users
           /\ \A i \in DOMAIN users :
                 /\ usersRef[i].id = users[i].id
                 /\ usersRef[i].color = users[i].color
                 /\ i # userId => /\ usersRef[i].x = users[i].x
                                  /\ usersRef[i].y = users[i].y

PresenceAfterChurn ==
    /\ Settled
    /\ clientEvent.kind = "cursorUpdate"
    /\ DOMAIN users = {2, userId}
    /\ users[2].x = 12
    /\ users[userId].x = 0

\* C37: the server never holds two open sessions of the client; the client opens
\* at most two sockets (the first Sync makes it reconnect once); and when it has
\* settled the registry holds exactly one session of it, whose id is its userId.
OneSessionPerClient ==
    /\ Cardinality(Connected \cap ClientIds) <= 1
    /\ Cardinality(issued \cap ClientIds) <= 2
    /\ Settled => /\ Connected \cap ClientIds = {userId}
                  /\ userId = sid

\* C39: every konamiActivated a connected client emits for an off-to-on toggle
\* is accepted by the server and raises the counter by exactly one: the client's
\* gesture debounce keeps such toggles far enough apart for the server's window.
EveryToggleCounts ==
    [][(event'.kind = "konamiActivated" /\ event'.id = sid /\ outbox # << >>)
          => konamiActivations' = konamiActivations + 1]_vars

\* C31: a Sync or Heartbeat with a missing field never makes its listener throw
\* and never corrupts the estimator: the latency window and the smoothed latency
\* hold numbers only, and the estimate stays a number.
GarbledIsSkipped ==
    /\ clientEvent.kind # "uncaughtException"
    /\ \A i \in DOMAIN latencyHistory : latencyHistory[i] # NaN
    /\ latency # NaN
    /\ (clientEvent.kind = "estimate" /\ clientEvent.result # << >>)
          => clientEvent.result[1].songTime # NaN

====
